---- MODULE Spec2Model ----
(***************************************************************************)
(* Model of the VolumeManager facade of longhorn-manager                    *)
(* (src/manager/manager.go).  The durable records live in the datastore;   *)
(* every facade operation is a read-modify-write of whole records.          *)
(***************************************************************************)
EXTENDS Integers, Sequences, FiniteSets, TLC

\* ---------------------------------------------------------------- bounds

\* request.SalvageReplicaNames has at most MaxSalvage entries.
MaxSalvage == 2

\* ------------------------------------------------------------ value sets

VolumeNames == {"v1", "v2"}
\* Names VolumeCreate requests are drawn from ("v2" never gets a record, so
\* that the not-found paths stay reachable beside an existing volume).
CreateNames == {"v1"}
ReplicaNames == {"r1", "r2"}
NodeIDs == {"", "n1"}
\* Values of util.Now().
Timestamps == {"t1", "t2"}
RequestSizes == {"10Gi", "bad"}
ReplicaCounts == {0, 3}
BackupURLs == {"", "b1", "b2", "missing"}
JobLists == {<<>>, <<"j1">>}

VolumeStateCreated == "created"
VolumeStateDetached == "detached"
VolumeStateHealthy == "healthy"
VolumeStateDegraded == "degraded"
VolumeStateFault == "fault"
VolumeStateDeleted == "deleted"

VolumeStates ==
    {VolumeStateCreated, VolumeStateDetached, VolumeStateHealthy,
     VolumeStateDegraded, VolumeStateFault, VolumeStateDeleted}

\* A nil pointer returned by a datastore "get" (record not found).
Nil == [nil |-> TRUE]

SalvageLists ==
    UNION {[1..n -> ReplicaNames] : n \in 0..MaxSalvage}

\* The goroutines that call getManagedVolume(name, true) at the same time.
Callers == {"g1", "g2"}
BackupTargets == {"", "s3"}

\* ------------------------------------------------------------- variables

VARIABLES
    volumes,     \* datastore: volume name -> VolumeInfo or Nil
    replicas,    \* datastore: volume name -> replica name -> ReplicaInfo or Nil
    pending,     \* the VolumeCreateBySpec call suspended in its deferred notifyVolume
    consumer,    \* "waiting" when a receiver is blocked on EventChan, else "away"
    last,        \* the operation that last changed a stored record, and its result
    e2e,         \* progress along the end-to-end scenarios of volume "v1"
    managedVolumes, \* the cache: volume name -> ManagedVolume or Nil
    mutex,       \* managedVolumesMutex: "free" or the caller that holds it
    getters,     \* the callers of getManagedVolume(name, true), step by step
    dispatched,  \* the dispatch operation called last, and its result
    settings,    \* datastore: the settings record or Nil
    call         \* a facade call suspended between its read and its write

cache == <<managedVolumes, mutex, getters, dispatched>>

vars == <<volumes, replicas, pending, consumer, last, e2e, cache, settings, call>>

\* --------------------------------------------------- external collaborators

\* util.ConvertSize: fails on a malformed size string.
ConvertSizeOk(size) == size \in {"10Gi", "5Gi"}

\* engineapi.GetBackup: the backup's recorded volume size, or an error.
GetBackupOk(url) == url \in {"b1", "b2"}
BackupVolumeSize(url) == IF url = "b1" THEN "5Gi" ELSE "bad"

\* ValidateVolume: cross-field consistency of a VolumeInfo.
ValidateVolume(volume) ==
    /\ volume.Name # ""
    /\ volume.NumberOfReplicas >= 1

\* A result of a facade call: the error / panic outcome, the records the
\* datastore holds afterwards, and the number of notifyVolume calls made.
Result(err, panic, vs, rs, notify) ==
    [err |-> err, panic |-> panic, volumes |-> vs, replicas |-> rs,
     notify |-> notify]

\* ------------------------------------------------------------- datastore

\* ds.GetVolume / ds.GetVolumeReplica: the stored record, Nil when not found.
GetVolume(vs, name) == vs[name]
GetVolumeReplica(rs, volumeName, repName) == rs[volumeName][repName]

\* ds.UpdateVolume / ds.UpdateVolumeReplica: replace the whole stored record.
UpdateVolume(vs, volume) == [vs EXCEPT ![volume.Name] = volume]
UpdateVolumeReplica(rs, volumeName, repName, replica) ==
    [rs EXCEPT ![volumeName][repName] = replica]

\* NewVolume: persist a new VolumeInfo; the name is the primary key.
NewVolumeOk(vs, info) == vs[info.Name] = Nil

\* GetRandomNode: a registered node, or NoNode when none is available.
NoNode == "none"
RandomNodes == {"n2", NoNode}

\* --------------------------------------------------------- VolumeCreate

VolumeCreateRequests ==
    [Name : CreateNames, Size : RequestSizes, FromBackup : BackupURLs,
     NumberOfReplicas : ReplicaCounts]

\* Faulty variant: the requested size is kept for a volume made from a backup.
CreateSize_RequestSize(request) == request.Size

\* The size persisted by VolumeCreate (lines 72-79).
CreateSize(request) ==
    IF request.FromBackup # "" THEN BackupVolumeSize(request.FromBackup)
    ELSE request.Size

NewVolumeInfo(request, node, now) ==
    [Name |-> request.Name,
     OwnerID |-> node,
     Size |-> CreateSize(request),
     FromBackup |-> request.FromBackup,
     NumberOfReplicas |-> request.NumberOfReplicas,
     DesireState |-> VolumeStateDetached,
     NodeID |-> "",
     RecurringJobs |-> <<>>,
     Created |-> now,
     State |-> VolumeStateCreated]

\* fault = 1: the datastore write inside NewVolume fails.
VolumeCreateCall(vs, rs, request, node, now, fault) ==
    IF ~ConvertSizeOk(request.Size) THEN Result(TRUE, FALSE, vs, rs, 0)
    ELSE IF node = NoNode THEN Result(TRUE, FALSE, vs, rs, 0)
    ELSE IF request.FromBackup # "" /\ ~GetBackupOk(request.FromBackup)
         THEN Result(TRUE, FALSE, vs, rs, 0)
    ELSE LET info == NewVolumeInfo(request, node, now) IN
         IF fault = 1 \/ ~NewVolumeOk(vs, info)
         THEN Result(TRUE, FALSE, vs, rs, 0)
         ELSE Result(FALSE, FALSE, UpdateVolume(vs, info), rs, 0)

\* --------------------------------------------------------- VolumeAttach

\* Faulty variant: a volume that was never reconciled may be attached too.
AttachAllowed_CreatedToo(volume) ==
    volume.State \in {VolumeStateDetached, VolumeStateCreated}

\* The state VolumeAttach requires (line 120).
AttachAllowed(volume) == volume.State = VolumeStateDetached

\* Faulty variant: the desired state is not raised to Healthy.
AttachUpdate_KeepDesire(volume, nodeID) ==
    [volume EXCEPT !.NodeID = nodeID, !.OwnerID = nodeID]

\* Faulty variant: the owner is left as it was.
AttachUpdate_KeepOwner(volume, nodeID) ==
    [volume EXCEPT !.NodeID = nodeID, !.DesireState = VolumeStateHealthy]

\* The record VolumeAttach writes (lines 124-126).
AttachUpdate(volume, nodeID) ==
    [volume EXCEPT !.NodeID = nodeID, !.OwnerID = nodeID,
                   !.DesireState = VolumeStateHealthy]

\* fault = 1: ds.GetVolume fails; fault = 2: ds.UpdateVolume fails.
VolumeAttachCall(vs, rs, name, nodeID, fault) ==
    LET volume == GetVolume(vs, name) IN
    IF fault = 1 THEN Result(TRUE, FALSE, vs, rs, 0)
    ELSE IF volume = Nil THEN Result(TRUE, FALSE, vs, rs, 0)
    ELSE IF ~AttachAllowed(volume) THEN Result(TRUE, FALSE, vs, rs, 0)
    ELSE IF fault = 2 THEN Result(TRUE, FALSE, vs, rs, 0)
    ELSE Result(FALSE, FALSE, UpdateVolume(vs, AttachUpdate(volume, nodeID)), rs, 0)

\* --------------------------------------------------------- VolumeDetach

\* Faulty variant: a Degraded volume cannot be detached.
DetachAllowed_HealthyOnly(volume) == volume.State = VolumeStateHealthy

\* The states VolumeDetach requires (line 149).
DetachAllowed(volume) ==
    volume.State = VolumeStateHealthy \/ volume.State = VolumeStateDegraded

\* Faulty variant: the detach also records the volume as Detached.
DetachUpdate_SetsState(volume) ==
    [volume EXCEPT !.DesireState = VolumeStateDetached, !.NodeID = "",
                   !.State = VolumeStateDetached]

\* The record VolumeDetach writes (lines 153-154).
DetachUpdate(volume) ==
    [volume EXCEPT !.DesireState = VolumeStateDetached, !.NodeID = ""]

VolumeDetachCall(vs, rs, name, fault) ==
    LET volume == GetVolume(vs, name) IN
    IF fault = 1 THEN Result(TRUE, FALSE, vs, rs, 0)
    ELSE IF volume = Nil THEN Result(TRUE, FALSE, vs, rs, 0)
    ELSE IF ~DetachAllowed(volume) THEN Result(TRUE, FALSE, vs, rs, 0)
    ELSE IF fault = 2 THEN Result(TRUE, FALSE, vs, rs, 0)
    ELSE Result(FALSE, FALSE, UpdateVolume(vs, DetachUpdate(volume)), rs, 0)

\* --------------------------------------------------------- VolumeDelete

\* Faulty variant: the delete also takes the volume off its node.
DeleteUpdate_ClearsNode(volume) ==
    [volume EXCEPT !.DesireState = VolumeStateDeleted, !.NodeID = ""]

\* The record VolumeDelete writes (line 177).
DeleteUpdate(volume) == [volume EXCEPT !.DesireState = VolumeStateDeleted]

VolumeDeleteCall(vs, rs, name, fault) ==
    LET volume == GetVolume(vs, name) IN
    IF fault = 1 THEN Result(TRUE, FALSE, vs, rs, 0)
    ELSE IF volume = Nil THEN Result(TRUE, FALSE, vs, rs, 0)
    ELSE IF fault = 2 THEN Result(TRUE, FALSE, vs, rs, 0)
    ELSE Result(FALSE, FALSE, UpdateVolume(vs, DeleteUpdate(volume)), rs, 0)

\* ------------------------------------------------- VolumeRecurringUpdate

RecurringUpdate(volume, jobs) == [volume EXCEPT !.RecurringJobs = jobs]

VolumeRecurringUpdateCall(vs, rs, name, jobs, fault) ==
    LET volume == GetVolume(vs, name) IN
    IF fault = 1 THEN Result(TRUE, FALSE, vs, rs, 0)
    ELSE IF volume = Nil THEN Result(TRUE, FALSE, vs, rs, 0)
    ELSE IF fault = 2 THEN Result(TRUE, FALSE, vs, rs, 0)
    ELSE Result(FALSE, FALSE, UpdateVolume(vs, RecurringUpdate(volume, jobs)), rs, 0)

\* -------------------------------------------------------- VolumeSalvage

\* The state VolumeSalvage requires (line 200).
SalvageAllowed(volume) == volume.State = VolumeStateFault

\* Numbering of the datastore calls of one VolumeSalvage invocation, used to
\* say which of them fails: 1 is ds.GetVolume, 2i and 2i+1 are
\* ds.GetVolumeReplica and ds.UpdateVolumeReplica of the i-th named replica,
\* and 2n+2 is the final ds.UpdateVolume.
SalvageFaults(repNames) == 0..(2 * Len(repNames) + 2)

\* The loop over request.SalvageReplicaNames (lines 204-216), from the i-th
\* name on.  A replica the datastore does not hold comes back as a nil
\* pointer, and reading its FailedAt (line 209) panics.
RECURSIVE SalvageLoop(_, _, _, _, _)
SalvageLoop(rs, volumeName, repNames, i, fault) ==
    IF i > Len(repNames) THEN [err |-> FALSE, panic |-> FALSE, replicas |-> rs]
    ELSE LET repName == repNames[i]
             replica == GetVolumeReplica(rs, volumeName, repName)
         IN
         IF fault = 2 * i THEN [err |-> TRUE, panic |-> FALSE, replicas |-> rs]
         ELSE IF replica = Nil
              THEN [err |-> FALSE, panic |-> TRUE, replicas |-> rs]
         ELSE IF replica.FailedAt = ""
              THEN [err |-> TRUE, panic |-> FALSE, replicas |-> rs]
         ELSE IF fault = 2 * i + 1
              THEN [err |-> TRUE, panic |-> FALSE, replicas |-> rs]
         ELSE SalvageLoop(
                  UpdateVolumeReplica(rs, volumeName, repName,
                                      [replica EXCEPT !.FailedAt = ""]),
                  volumeName, repNames, i + 1, fault)

\* The record VolumeSalvage writes after the loop (line 218).
SalvageUpdate(volume) == [volume EXCEPT !.DesireState = VolumeStateDetached]

\* Faulty variant: the volume is written before the replicas are walked.
VolumeSalvageCall_VolumeFirst(vs, rs, name, repNames, fault) ==
    LET volume == GetVolume(vs, name) IN
    IF fault = 1 THEN Result(TRUE, FALSE, vs, rs, 0)
    ELSE IF volume = Nil THEN Result(TRUE, FALSE, vs, rs, 0)
    ELSE IF ~SalvageAllowed(volume) THEN Result(TRUE, FALSE, vs, rs, 0)
    ELSE IF fault = 2 * Len(repNames) + 2 THEN Result(TRUE, FALSE, vs, rs, 0)
    ELSE LET written == UpdateVolume(vs, SalvageUpdate(volume))
             loop == SalvageLoop(rs, volume.Name, repNames, 1, fault)
         IN Result(loop.err, loop.panic, written, loop.replicas, 0)

VolumeSalvageCall(vs, rs, name, repNames, fault) ==
    LET volume == GetVolume(vs, name) IN
    IF fault = 1 THEN Result(TRUE, FALSE, vs, rs, 0)
    ELSE IF volume = Nil THEN Result(TRUE, FALSE, vs, rs, 0)
    ELSE IF ~SalvageAllowed(volume) THEN Result(TRUE, FALSE, vs, rs, 0)
    ELSE LET loop == SalvageLoop(rs, volume.Name, repNames, 1, fault) IN
         IF loop.err \/ loop.panic
         THEN Result(loop.err, loop.panic, vs, loop.replicas, 0)
         ELSE IF fault = 2 * Len(repNames) + 2
              THEN Result(TRUE, FALSE, vs, loop.replicas, 0)
         ELSE Result(FALSE, FALSE, UpdateVolume(vs, SalvageUpdate(volume)),
                     loop.replicas, 0)

\* --------------------------------------------------- VolumeCreateBySpec

\* Faulty variant: the deferred function notifies whatever err is.
DeferredNotify_Always(err) == 1

\* The deferred function (lines 330-336): wraps a non-nil err, and otherwise
\* calls notifyVolume.  It sees the named result err as it is when the
\* function body ends, by return or by panic.
DeferredNotify(err) == IF err THEN 0 ELSE 1

\* The fields VolumeCreateBySpec sets on adoption (lines 359-362).
AdoptUpdate(volume, name, now) ==
    [volume EXCEPT !.Created = now, !.State = VolumeStateCreated,
                   !.Name = name, !.DesireState = VolumeStateDetached]

\* fault = 1: ds.GetVolume fails; fault = 2: ds.UpdateVolume fails.
\* With no record, line 343 reads volume.Name through the nil pointer and
\* panics while err is still nil.
VolumeCreateBySpecCall(vs, rs, name, now, fault) ==
    LET volume == GetVolume(vs, name) IN
    IF fault = 1 THEN Result(TRUE, FALSE, vs, rs, DeferredNotify(TRUE))
    ELSE IF volume = Nil THEN Result(FALSE, TRUE, vs, rs, DeferredNotify(FALSE))
    ELSE IF volume.State = VolumeStateCreated
         THEN Result(FALSE, FALSE, vs, rs, DeferredNotify(FALSE))
    ELSE IF volume.OwnerID = "" THEN Result(TRUE, FALSE, vs, rs, DeferredNotify(TRUE))
    ELSE IF ~ConvertSizeOk(volume.Size)
         THEN Result(TRUE, FALSE, vs, rs, DeferredNotify(TRUE))
    ELSE LET adopted == AdoptUpdate(volume, name, now) IN
         IF ~ValidateVolume(adopted)
         THEN Result(TRUE, FALSE, vs, rs, DeferredNotify(TRUE))
         ELSE IF fault = 2 THEN Result(TRUE, FALSE, vs, rs, DeferredNotify(TRUE))
         ELSE Result(FALSE, FALSE, UpdateVolume(vs, adopted), rs,
                     DeferredNotify(FALSE))

\* Faulty variant: a plain send, which waits until a receiver takes the event.
NotifyCanProceed_Blocking(c) == c = "waiting"

\* notifyVolume sends Event{name} on EventChan, which NewVolumeManager makes
\* unbuffered (line 41).  The send does not wait for a receiver: the event
\* is handed to a receiver that is waiting and dropped otherwise.
NotifyCanProceed(c) == TRUE
NotifyDelivered(c) == c = "waiting"

\* ------------------------------------------------ ManagedVolume cache

\* A ManagedVolume as getManagedVolume constructs it; two constructions by
\* different callers are two instances.
NewManagedVolume(name, builder) == [name |-> name, builtBy |-> builder]

\* The insert into the managedVolumes map.
RegisterManagedVolume(mvs, name, mv) == [mvs EXCEPT ![name] = mv]

\* Faulty variant: the lock admits a second caller while it is held.
MutexFree_NotExclusive(m) == TRUE

\* managedVolumesMutex.Lock() returns only while nobody holds the mutex.
MutexFree(m) == m = "free"

\* getManagedVolume(name, create), its critical section as one step: the
\* entry of the map; or, with create, a ManagedVolume built from the stored
\* VolumeInfo and registered; or an error.
GetManagedVolume(mvs, vs, name, create, builder) ==
    IF mvs[name] # Nil
    THEN [err |-> FALSE, volume |-> mvs[name], managedVolumes |-> mvs]
    ELSE IF ~create
         THEN [err |-> TRUE, volume |-> Nil, managedVolumes |-> mvs]
    ELSE IF GetVolume(vs, name) = Nil
         THEN [err |-> TRUE, volume |-> Nil, managedVolumes |-> mvs]
    ELSE LET mv == NewManagedVolume(name, builder) IN
         [err |-> FALSE, volume |-> mv,
          managedVolumes |-> RegisterManagedVolume(mvs, name, mv)]

\* ------------------------------------------------- dispatch operations

DispatchOps ==
    {"GetEngineClient", "SnapshotPurge", "SnapshotBackup", "ReplicaRemove",
     "JobList"}

\* What a dispatch operation does with the outcome of getManagedVolume: it
\* returns the error, or calls the ManagedVolume's method.
Delegate(got) ==
    [err |-> got.err, delegated |-> ~got.err,
     managedVolumes |-> got.managedVolumes]

\* Lines 289-327: each operation asks getManagedVolume with create = false.
GetEngineClient(mvs, vs, volumeName) ==
    Delegate(GetManagedVolume(mvs, vs, volumeName, FALSE, "dispatch"))
SnapshotPurge(mvs, vs, volumeName) ==
    Delegate(GetManagedVolume(mvs, vs, volumeName, FALSE, "dispatch"))
SnapshotBackup(mvs, vs, volumeName) ==
    Delegate(GetManagedVolume(mvs, vs, volumeName, FALSE, "dispatch"))
ReplicaRemove(mvs, vs, volumeName) ==
    Delegate(GetManagedVolume(mvs, vs, volumeName, FALSE, "dispatch"))
JobList(mvs, vs, volumeName) ==
    Delegate(GetManagedVolume(mvs, vs, volumeName, FALSE, "dispatch"))

DispatchCall(op, mvs, vs, volumeName) ==
    CASE op = "GetEngineClient" -> GetEngineClient(mvs, vs, volumeName)
      [] op = "SnapshotPurge" -> SnapshotPurge(mvs, vs, volumeName)
      [] op = "SnapshotBackup" -> SnapshotBackup(mvs, vs, volumeName)
      [] op = "ReplicaRemove" -> ReplicaRemove(mvs, vs, volumeName)
      [] op = "JobList" -> JobList(mvs, vs, volumeName)

\* ------------------------------------------------------------- settings

\* &types.SettingsInfo{} (line 275).
DefaultSettings == [BackupTarget |-> ""]
SettingsValues == [BackupTarget : BackupTargets]

\* SettingsGet (lines 269-283).  fault = 1: the first ds.GetSettings fails;
\* fault = 2: ds.CreateSettings fails; fault = 3: the second ds.GetSettings
\* fails.  The err declared on line 276 lives in the if block, and line 280
\* assigns the second read's error to it; line 282 returns the err of line
\* 270, which is nil there.  creates counts the ds.CreateSettings calls.
SettingsGetCall(st, fault) ==
    IF fault = 1
    THEN [ret |-> Nil, err |-> TRUE, settings |-> st, creates |-> 0,
          reread |-> [ret |-> Nil, err |-> FALSE, done |-> FALSE]]
    ELSE IF st # Nil
    THEN [ret |-> st, err |-> FALSE, settings |-> st, creates |-> 0,
          reread |-> [ret |-> Nil, err |-> FALSE, done |-> FALSE]]
    ELSE LET stored == IF fault = 2 THEN st ELSE DefaultSettings
             reread == IF fault = 3
                       THEN [ret |-> Nil, err |-> TRUE, done |-> TRUE]
                       ELSE [ret |-> stored, err |-> FALSE, done |-> TRUE]
         IN [ret |-> reread.ret, err |-> FALSE, settings |-> stored,
             creates |-> 1, reread |-> reread]

\* SettingsSet (lines 285-287): ds.UpdateSettings, which fails when there is
\* no record to update.
SettingsSetCall(st, new, fault) ==
    IF fault = 1 \/ st = Nil THEN [err |-> TRUE, settings |-> st]
    ELSE [err |-> FALSE, settings |-> new]

\* ------------------------------------------------ read-modify-write, split

\* The calls of the facade that read a volume record and write it back, with
\* their arguments: arg holds the node, the jobs, the replica names or the
\* timestamp of the call.
FacadeCalls ==
    {[op |-> "VolumeAttach", name |-> "v1", arg |-> <<n>>] : n \in NodeIDs}
    \cup {[op |-> o, name |-> "v1", arg |-> <<>>] :
              o \in {"VolumeDetach", "VolumeDelete", "VolumeSalvage"}}
    \cup {[op |-> "VolumeRecurringUpdate", name |-> "v1", arg |-> j] :
              j \in JobLists \ {<<>>}}
    \cup {[op |-> "VolumeCreateBySpec", name |-> "v1", arg |-> <<t>>] :
              t \in Timestamps \ {"t1"}}

\* The handler of a call, run on the records vs and rs.
FacadeCall(c, vs, rs, fault) ==
    CASE c.op = "VolumeAttach" -> VolumeAttachCall(vs, rs, c.name, c.arg[1], fault)
      [] c.op = "VolumeDetach" -> VolumeDetachCall(vs, rs, c.name, fault)
      [] c.op = "VolumeDelete" -> VolumeDeleteCall(vs, rs, c.name, fault)
      [] c.op = "VolumeSalvage" -> VolumeSalvageCall(vs, rs, c.name, c.arg, fault)
      [] c.op = "VolumeRecurringUpdate" ->
             VolumeRecurringUpdateCall(vs, rs, c.name, c.arg, fault)
      [] c.op = "VolumeCreateBySpec" ->
             VolumeCreateBySpecCall(vs, rs, c.name, c.arg[1], fault)

\* The number of the call's final ds.UpdateVolume among its datastore calls.
WriteFault(c) ==
    IF c.op = "VolumeSalvage" THEN 2 * Len(c.arg) + 2 ELSE 2

\* The call gets as far as its ds.UpdateVolume on the record it reads: it
\* succeeds, and fails when that write fails.
ReachesWrite(c, vs, rs) ==
    /\ ~FacadeCall(c, vs, rs, 0).err
    /\ ~FacadeCall(c, vs, rs, 0).panic
    /\ FacadeCall(c, vs, rs, WriteFault(c)).err

\* The datastore as the suspended call saw it: the record it read in place
\* of the stored one.
AsRead(vs, c) == [vs EXCEPT ![c.name] = c.local]

\* Faulty variant: the write is refused when the stored record is no longer
\* the record that was read.
CallWriteResult_Versioned(vs, rs, c) ==
    LET r == FacadeCall(c, AsRead(vs, c), rs, 0) IN
    IF vs[c.name] # c.local THEN Result(TRUE, FALSE, vs, rs, 0)
    ELSE Result(r.err, r.panic,
                [vs EXCEPT ![c.name] = r.volumes[c.name]], r.replicas, r.notify)

\* The second half of a handler: it changes fields of the record it read
\* and hands the whole record to ds.UpdateVolume, which replaces the stored
\* record whatever that holds by now.
CallWriteResult(vs, rs, c) ==
    LET r == FacadeCall(c, AsRead(vs, c), rs, 0) IN
    Result(r.err, r.panic,
           [vs EXCEPT ![c.name] = r.volumes[c.name]], r.replicas, r.notify)

\* ------------------------------------------------- reconciler, consumer

\* The ManagedVolume worker writes the State it observes back to the
\* datastore; Created is written by the facade only.
ObservedStates == VolumeStates \ {VolumeStateCreated}

\* FailedAt as the worker records it: "" for a healthy replica.
FailedAtValues == {"", "t1"}

\* ------------------------------------------------- end-to-end scenarios

\* The scenario as the specification words it, and the scenario with the
\* reconciler's Created -> Detached step in it.
ScenarioAsWorded == <<"create", "attach", "healthy", "detach", "delete">>
ScenarioWithDetached ==
    <<"create", "detached", "attach", "healthy", "detach", "delete">>

\* Progress along a scenario after a step labelled lab; fresh says that the
\* step ran on a datastore with no record of "v1".
Advance(k, scenario, lab, fresh) ==
    IF k < Len(scenario) /\ scenario[k + 1] = lab /\ (k = 0 => fresh)
    THEN k + 1 ELSE 0

\* ok: every step of the scenario run so far returned success.
Track(e, lab, fresh, err) ==
    LET w == Advance(e.worded, ScenarioAsWorded, lab, fresh)
        d == Advance(e.detached, ScenarioWithDetached, lab, fresh)
    IN [worded |-> w, detached |-> d,
        ok |-> IF w = 0 /\ d = 0 THEN TRUE
               ELSE IF w = 1 \/ d = 1 THEN ~err
               ELSE e.ok /\ ~err]

ReconcileLabel(name, state) ==
    IF name = "v1" /\ state = VolumeStateDetached THEN "detached"
    ELSE IF name = "v1" /\ state = VolumeStateHealthy THEN "healthy"
    ELSE "other"

\* ------------------------------------------------------- state machine

Idle == [pc |-> "idle", name |-> "", panic |-> FALSE]

IdleGetter ==
    [pc |-> "idle", name |-> "", volume |-> Nil, err |-> FALSE,
     overlap |-> FALSE]
NoDispatch == [op |-> "none", name |-> "", err |-> FALSE]
IdleCall ==
    [pc |-> "idle", op |-> "none", name |-> "", arg |-> <<>>, local |-> Nil,
     err |-> FALSE, stale |-> FALSE]

Init ==
    /\ volumes = [n \in VolumeNames |-> Nil]
    /\ replicas = [n \in VolumeNames |-> [r \in ReplicaNames |-> Nil]]
    /\ pending = Idle
    /\ consumer = "away"
    /\ last = [op |-> "none", err |-> FALSE]
    /\ e2e = [worded |-> 0, detached |-> 0, ok |-> TRUE]
    /\ managedVolumes = [n \in VolumeNames |-> Nil]
    /\ mutex = "free"
    /\ getters = [g \in Callers |-> IdleGetter]
    /\ dispatched = NoDispatch
    /\ settings = Nil
    /\ call = IdleCall

\* The datastore after a facade call; a call that changed no record leaves
\* last as it is.
Commit(op, r, lab) ==
    /\ volumes' = r.volumes
    /\ replicas' = r.replicas
    /\ last' = IF r.volumes = volumes /\ r.replicas = replicas THEN last
               ELSE [op |-> op, err |-> r.err]
    /\ e2e' = Track(e2e, lab, volumes["v1"] = Nil, r.err)

VolumeCreate ==
    \E request \in VolumeCreateRequests, node \in RandomNodes,
       now \in Timestamps, fault \in 0..1 :
        /\ Commit("VolumeCreate",
                  VolumeCreateCall(volumes, replicas, request, node, now, fault),
                  IF /\ request.Name = "v1" /\ request.Size = "10Gi"
                     /\ request.NumberOfReplicas = 3 /\ request.FromBackup = ""
                     /\ node # NoNode /\ fault = 0
                  THEN "create" ELSE "other")
        /\ UNCHANGED <<pending, consumer, cache, settings, call>>

VolumeAttach ==
    \E name \in VolumeNames, nodeID \in NodeIDs, fault \in 0..2 :
        /\ Commit("VolumeAttach",
                  VolumeAttachCall(volumes, replicas, name, nodeID, fault),
                  IF name = "v1" /\ nodeID = "n1" /\ fault = 0
                  THEN "attach" ELSE "other")
        /\ UNCHANGED <<pending, consumer, cache, settings, call>>

VolumeDetach ==
    \E name \in VolumeNames, fault \in 0..2 :
        /\ Commit("VolumeDetach",
                  VolumeDetachCall(volumes, replicas, name, fault),
                  IF name = "v1" /\ fault = 0 THEN "detach" ELSE "other")
        /\ UNCHANGED <<pending, consumer, cache, settings, call>>

VolumeDelete ==
    \E name \in VolumeNames, fault \in 0..2 :
        /\ Commit("VolumeDelete",
                  VolumeDeleteCall(volumes, replicas, name, fault),
                  IF name = "v1" /\ fault = 0 THEN "delete" ELSE "other")
        /\ UNCHANGED <<pending, consumer, cache, settings, call>>

VolumeSalvage ==
    \E name \in VolumeNames, repNames \in SalvageLists :
        \E fault \in SalvageFaults(repNames) :
            /\ Commit("VolumeSalvage",
                      VolumeSalvageCall(volumes, replicas, name, repNames, fault),
                      "other")
            /\ UNCHANGED <<pending, consumer, cache, settings, call>>

VolumeRecurringUpdate ==
    \E name \in VolumeNames, jobs \in JobLists, fault \in 0..2 :
        /\ Commit("VolumeRecurringUpdate",
                  VolumeRecurringUpdateCall(volumes, replicas, name, jobs, fault),
                  "other")
        /\ UNCHANGED <<pending, consumer, cache, settings, call>>

\* VolumeCreateBySpec with its deferred function run to the end.
VolumeCreateBySpec ==
    \E name \in VolumeNames, now \in Timestamps, fault \in 0..2 :
        /\ Commit("VolumeCreateBySpec",
                  VolumeCreateBySpecCall(volumes, replicas, name, now, fault),
                  "other")
        /\ UNCHANGED <<pending, consumer, cache, settings, call>>

\* The worker records the State it observes.
ReconcileState ==
    \E name \in VolumeNames, state \in ObservedStates :
        /\ volumes[name] # Nil
        /\ volumes[name].State # state
        /\ volumes' = [volumes EXCEPT ![name].State = state]
        /\ last' = [op |-> "Reconcile", err |-> FALSE]
        /\ e2e' = Track(e2e, ReconcileLabel(name, state), FALSE, FALSE)
        /\ UNCHANGED <<replicas, pending, consumer, cache, settings, call>>

\* The worker creates a replica record, or records its failure or recovery.
ReconcileReplica ==
    \E name \in VolumeNames, repName \in ReplicaNames, failedAt \in FailedAtValues :
        /\ volumes[name] # Nil
        /\ replicas[name][repName] # [FailedAt |-> failedAt]
        /\ replicas' = [replicas EXCEPT ![name][repName] = [FailedAt |-> failedAt]]
        /\ last' = [op |-> "Reconcile", err |-> FALSE]
        /\ e2e' = Track(e2e, "other", FALSE, FALSE)
        /\ UNCHANGED <<volumes, pending, consumer, cache, settings, call>>

Next ==
    \/ VolumeCreate
    \/ VolumeAttach
    \/ VolumeDetach
    \/ VolumeDelete
    \/ VolumeSalvage
    \/ VolumeRecurringUpdate
    \/ VolumeCreateBySpec
    \/ ReconcileState
    \/ ReconcileReplica

Spec == Init /\ [][Next]_vars

\* ------------------------------------------- the event channel, stepwise

\* The body of VolumeCreateBySpec up to the deferred function; a call whose
\* deferred function calls notifyVolume is suspended there.
CreateBySpecBody ==
    /\ pending.pc = "idle"
    /\ \E name \in VolumeNames, now \in Timestamps, fault \in 0..2 :
        LET r == VolumeCreateBySpecCall(volumes, replicas, name, now, fault) IN
        /\ Commit("VolumeCreateBySpec", r, "other")
        /\ pending' = IF r.notify = 1
                      THEN [pc |-> "notify", name |-> name, panic |-> r.panic]
                      ELSE Idle
        /\ UNCHANGED <<consumer, cache, settings, call>>

\* notifyVolume, and the return (or the propagating panic) after it.
NotifyVolume ==
    /\ pending.pc = "notify"
    /\ NotifyCanProceed(consumer)
    /\ consumer' = IF NotifyDelivered(consumer) THEN "away" ELSE consumer
    /\ pending' = Idle
    /\ UNCHANGED <<volumes, replicas, last, e2e, cache, settings, call>>

\* The reader of EventChan starts, or gives up, a receive.
ConsumerReceive ==
    /\ consumer' = IF consumer = "away" THEN "waiting" ELSE "away"
    /\ UNCHANGED <<volumes, replicas, pending, last, e2e, cache, settings, call>>

NextChan ==
    \/ VolumeCreate
    \/ VolumeAttach
    \/ ReconcileState
    \/ CreateBySpecBody
    \/ NotifyVolume
    \/ ConsumerReceive

\* The facade's own steps are taken when they can be; nothing is assumed of
\* the reader of EventChan.
LiveSpec == Init /\ [][NextChan]_vars /\ WF_vars(NotifyVolume)

\* --------------------------------------- the cache and the settings record

\* VolumeCreate of the scenario's volume alone.
CreatePlain ==
    /\ Commit("VolumeCreate",
              VolumeCreateCall(volumes, replicas,
                               [Name |-> "v1", Size |-> "10Gi", FromBackup |-> "",
                                NumberOfReplicas |-> 3],
                               "n2", "t1", 0),
              "other")
    /\ UNCHANGED <<pending, consumer, cache, settings, call>>

\* A caller enters getManagedVolume(name, true); overlap records that
\* another call for the same name is in progress.
GetterCall ==
    \E g \in Callers, name \in VolumeNames :
        LET busy == {h \in Callers \ {g} :
                        /\ getters[h].pc \notin {"idle", "returned"}
                        /\ getters[h].name = name}
        IN
        /\ getters[g].pc = "idle"
        /\ getters' = [h \in Callers |->
                          IF h = g
                          THEN [IdleGetter EXCEPT !.pc = "lock", !.name = name,
                                                  !.overlap = busy # {}]
                          ELSE IF h \in busy
                               THEN [getters[h] EXCEPT !.overlap = TRUE]
                               ELSE getters[h]]
        /\ UNCHANGED <<volumes, replicas, pending, consumer, last, e2e,
                       managedVolumes, mutex, dispatched, settings, call>>

\* managedVolumesMutex.Lock()
GetterLock ==
    \E g \in Callers :
        /\ getters[g].pc = "lock"
        /\ MutexFree(mutex)
        /\ mutex' = g
        /\ getters' = [getters EXCEPT ![g].pc = "lookup"]
        /\ UNCHANGED <<volumes, replicas, pending, consumer, last, e2e,
                       managedVolumes, dispatched, settings, call>>

\* The lookup in the map and, for an absent name, the load of the VolumeInfo.
GetterLookup ==
    \E g \in Callers :
        LET name == getters[g].name IN
        /\ getters[g].pc = "lookup"
        /\ getters' =
               IF managedVolumes[name] # Nil
               THEN [getters EXCEPT ![g].pc = "unlock",
                                    ![g].volume = managedVolumes[name]]
               ELSE IF GetVolume(volumes, name) = Nil
                    THEN [getters EXCEPT ![g].pc = "unlock", ![g].err = TRUE]
               ELSE [getters EXCEPT ![g].pc = "construct"]
        /\ UNCHANGED <<volumes, replicas, pending, consumer, last, e2e,
                       managedVolumes, mutex, dispatched, settings, call>>

\* The construction of the ManagedVolume and its insert into the map.
GetterConstruct ==
    \E g \in Callers :
        LET name == getters[g].name
            mv == NewManagedVolume(name, g)
        IN
        /\ getters[g].pc = "construct"
        /\ managedVolumes' = RegisterManagedVolume(managedVolumes, name, mv)
        /\ getters' = [getters EXCEPT ![g].pc = "unlock", ![g].volume = mv]
        /\ UNCHANGED <<volumes, replicas, pending, consumer, last, e2e,
                       mutex, dispatched, settings, call>>

\* managedVolumesMutex.Unlock() and the return.
GetterUnlock ==
    \E g \in Callers :
        /\ getters[g].pc = "unlock"
        /\ mutex' = "free"
        /\ getters' = [getters EXCEPT ![g].pc = "returned"]
        /\ UNCHANGED <<volumes, replicas, pending, consumer, last, e2e,
                       managedVolumes, dispatched, settings, call>>

\* The caller is done with the ManagedVolume it got.
GetterReturn ==
    \E g \in Callers :
        /\ getters[g].pc = "returned"
        /\ getters' = [getters EXCEPT ![g] = IdleGetter]
        /\ UNCHANGED <<volumes, replicas, pending, consumer, last, e2e,
                       managedVolumes, mutex, dispatched, settings, call>>

\* A dispatch operation; the critical section of its getManagedVolume is
\* one step.
Dispatch ==
    \E op \in DispatchOps, name \in VolumeNames :
        LET r == DispatchCall(op, managedVolumes, volumes, name) IN
        /\ MutexFree(mutex)
        /\ managedVolumes' = r.managedVolumes
        /\ dispatched' = [op |-> op, name |-> name, err |-> r.err]
        /\ UNCHANGED <<volumes, replicas, pending, consumer, last, e2e,
                       mutex, getters, settings, call>>

SettingsGet ==
    \E fault \in 0..3 :
        /\ settings' = SettingsGetCall(settings, fault).settings
        /\ UNCHANGED <<volumes, replicas, pending, consumer, last, e2e,
                       cache, call>>

SettingsSet ==
    \E new \in SettingsValues, fault \in 0..1 :
        /\ settings' = SettingsSetCall(settings, new, fault).settings
        /\ UNCHANGED <<volumes, replicas, pending, consumer, last, e2e,
                       cache, call>>

NextCache ==
    \/ CreatePlain
    \/ GetterCall
    \/ GetterLock
    \/ GetterLookup
    \/ GetterConstruct
    \/ GetterUnlock
    \/ GetterReturn
    \/ Dispatch
    \/ SettingsGet
    \/ SettingsSet

CacheSpec == Init /\ [][NextCache]_vars

\* ------------------------------------------- two calls on the same record

\* Every handler reads the volume record once and writes it once, so two
\* calls on one volume interleave in one of two ways: one after the other,
\* or one of them wholly between the read and the write of the other.

\* A call that runs from its read to its write with nothing in between.
CallWhole ==
    \E c \in FacadeCalls :
        /\ Commit(c.op, FacadeCall(c, volumes, replicas, 0), "other")
        /\ UNCHANGED <<pending, consumer, cache, settings, call>>

\* ds.GetVolume and the checks on the record read; a call that those checks
\* end returns here.
CallRead ==
    \E c \in FacadeCalls :
        LET r == FacadeCall(c, volumes, replicas, 0) IN
        /\ call.pc = "idle"
        /\ call' = IF ReachesWrite(c, volumes, replicas)
                   THEN [pc |-> "read", op |-> c.op, name |-> c.name,
                         arg |-> c.arg, local |-> GetVolume(volumes, c.name),
                         err |-> FALSE, stale |-> FALSE]
                   ELSE [IdleCall EXCEPT !.pc = "done", !.op = c.op,
                                         !.err = r.err \/ r.panic]
        /\ UNCHANGED <<volumes, replicas, pending, consumer, last, e2e,
                       cache, settings>>

\* The changes to the record read, ds.UpdateVolume and the return; stale
\* records that the stored record had changed since the read.
CallWrite ==
    LET r == CallWriteResult(volumes, replicas, call) IN
    /\ call.pc = "read"
    /\ volumes' = r.volumes
    /\ replicas' = r.replicas
    /\ call' = [IdleCall EXCEPT !.pc = "done", !.op = call.op,
                                !.err = r.err \/ r.panic,
                                !.stale = volumes[call.name] # call.local]
    /\ UNCHANGED <<pending, consumer, last, e2e, cache, settings>>

CallReturn ==
    /\ call.pc = "done"
    /\ call' = IdleCall
    /\ UNCHANGED <<volumes, replicas, pending, consumer, last, e2e,
                   cache, settings>>

NextRace ==
    \/ CreatePlain
    \/ ReconcileState
    \/ CallWhole
    \/ CallRead
    \/ CallWrite
    \/ CallReturn

RaceSpec == Init /\ [][NextRace]_vars

\* ---------------------------------------------------------------- claims

Stored(name) == volumes[name] # Nil

\* C1: for every existing volume, VolumeAttach(name, nodeID) with a working
\* datastore succeeds exactly when the stored State is Detached; a successful
\* call stores NodeID = nodeID, OwnerID = nodeID and DesireState = Healthy,
\* and a failing call (a datastore failure included) leaves every stored
\* record as it was.
C1_AttachIffDetached ==
    \A name \in VolumeNames, nodeID \in NodeIDs :
        Stored(name) =>
            /\ LET r == VolumeAttachCall(volumes, replicas, name, nodeID, 0) IN
               /\ ~r.panic
               /\ ~r.err <=> volumes[name].State = VolumeStateDetached
               /\ ~r.err =>
                     /\ r.volumes[name].NodeID = nodeID
                     /\ r.volumes[name].OwnerID = nodeID
                     /\ r.volumes[name].DesireState = VolumeStateHealthy
            /\ \A fault \in 0..2 :
                   LET r == VolumeAttachCall(volumes, replicas, name, nodeID, fault) IN
                   /\ fault # 0 => r.err
                   /\ r.err => r.volumes = volumes /\ r.replicas = replicas

C1_Witness ==
    /\ last = [op |-> "VolumeAttach", err |-> FALSE]
    /\ volumes["v1"].NodeID = "n1"
    /\ volumes["v1"].OwnerID = "n1"
    /\ volumes["v1"].DesireState = VolumeStateHealthy

\* C2: for every existing volume, VolumeDetach(name) with a working datastore
\* succeeds exactly when the stored State is Healthy or Degraded; a
\* successful call stores DesireState = Detached and NodeID = "", and a
\* failing call leaves every stored record as it was.
C2_DetachIffHealthyOrDegraded ==
    \A name \in VolumeNames :
        Stored(name) =>
            /\ LET r == VolumeDetachCall(volumes, replicas, name, 0) IN
               /\ ~r.panic
               /\ ~r.err <=> volumes[name].State \in
                                 {VolumeStateHealthy, VolumeStateDegraded}
               /\ ~r.err =>
                     /\ r.volumes[name].DesireState = VolumeStateDetached
                     /\ r.volumes[name].NodeID = ""
            /\ \A fault \in 0..2 :
                   LET r == VolumeDetachCall(volumes, replicas, name, fault) IN
                   /\ fault # 0 => r.err
                   /\ r.err => r.volumes = volumes /\ r.replicas = replicas

C2_Witness ==
    /\ last = [op |-> "VolumeDetach", err |-> FALSE]
    /\ volumes["v1"].State = VolumeStateDegraded
    /\ volumes["v1"].NodeID = ""
    /\ volumes["v1"].OwnerID = "n1"
    /\ volumes["v1"].DesireState = VolumeStateDetached

\* C3: VolumeSalvage(name, [r1, r2]) on a volume in State Fault is all or
\* nothing: if r1 or r2 has FailedAt = "", the call fails and no record is
\* changed, whichever of the two is the healthy one; if both are failed, both
\* are cleared and DesireState becomes Detached.
C3_SalvageAllOrNothing ==
    \A name \in VolumeNames, r1 \in ReplicaNames, r2 \in ReplicaNames :
        (/\ r1 # r2
         /\ Stored(name)
         /\ volumes[name].State = VolumeStateFault
         /\ replicas[name][r1] # Nil
         /\ replicas[name][r2] # Nil) =>
            LET r == VolumeSalvageCall(volumes, replicas, name, <<r1, r2>>, 0) IN
            IF replicas[name][r1].FailedAt = "" \/ replicas[name][r2].FailedAt = ""
            THEN r.err /\ r.volumes = volumes /\ r.replicas = replicas
            ELSE /\ ~r.err
                 /\ r.replicas[name][r1].FailedAt = ""
                 /\ r.replicas[name][r2].FailedAt = ""
                 /\ r.volumes[name].DesireState = VolumeStateDetached

\* C4: a VolumeCreateBySpec call on an existing volume calls notifyVolume
\* exactly once when it adopts the volume and returns success, and not at
\* all on a path that returns an error (volume lookup error, missing OwnerID,
\* unparsable size, ValidateVolume failure, UpdateVolume failure); when it
\* notifies, the datastore already holds the record as Created.
C4_NotifyOnSuccessOnly ==
    \A name \in VolumeNames, now \in Timestamps, fault \in 0..2 :
        Stored(name) =>
            LET volume == volumes[name]
                r == VolumeCreateBySpecCall(volumes, replicas, name, now, fault)
            IN
            /\ r.err => r.notify = 0 /\ r.volumes = volumes
            /\ (~r.err /\ volume.State # VolumeStateCreated) =>
                   /\ r.notify = 1
                   /\ r.volumes[name] = AdoptUpdate(volume, name, now)
            /\ r.notify = 1 => r.volumes[name].State = VolumeStateCreated
            /\ (fault = 1
                \/ (volume.State # VolumeStateCreated
                    /\ (\/ volume.OwnerID = ""
                        \/ ~ConvertSizeOk(volume.Size)
                        \/ ~ValidateVolume(volume)
                        \/ fault = 2))) => r.err

C4_Witness ==
    /\ last = [op |-> "VolumeCreateBySpec", err |-> FALSE]
    /\ volumes["v1"].State = VolumeStateCreated
    /\ volumes["v1"].OwnerID = "n1"
    /\ volumes["v1"].DesireState = VolumeStateDetached

\* C5: VolumeCreateBySpec on a volume whose State is already Created is a
\* no-op, called once or twice: the stored record is unchanged (Created is
\* not reset) and neither call sends a notification event.
C5_NoopOnCreated ==
    \A name \in VolumeNames, now1 \in Timestamps, now2 \in Timestamps :
        (Stored(name) /\ volumes[name].State = VolumeStateCreated) =>
            LET first == VolumeCreateBySpecCall(volumes, replicas, name, now1, 0)
                second == VolumeCreateBySpecCall(first.volumes, first.replicas,
                                                 name, now2, 0)
            IN
            /\ ~first.err /\ ~second.err
            /\ first.volumes = volumes /\ second.volumes = volumes
            /\ first.notify = 0 /\ second.notify = 0

\* C6: the end-to-end sequence on "v1" exactly as worded, with the one
\* reconciler step (to Healthy) in it, succeeds at every step: VolumeCreate
\* gives Created / Detached, VolumeAttach to "n1" gives NodeID = "n1" and
\* DesireState = Healthy, the reconciler marks Healthy, VolumeDetach gives
\* DesireState = Detached and NodeID = "", VolumeDelete gives Deleted.
C6_ScenarioAsWorded ==
    e2e.worded >= 1 =>
        /\ e2e.ok
        /\ Stored("v1")
        /\ LET v == volumes["v1"] IN
           /\ e2e.worded = 1 =>
                  v.State = VolumeStateCreated /\ v.DesireState = VolumeStateDetached
           /\ e2e.worded = 2 =>
                  v.NodeID = "n1" /\ v.DesireState = VolumeStateHealthy
           /\ e2e.worded = 3 => v.State = VolumeStateHealthy
           /\ e2e.worded = 4 =>
                  v.DesireState = VolumeStateDetached /\ v.NodeID = ""
           /\ e2e.worded = 5 => v.DesireState = VolumeStateDeleted

\* C6 (amended): the same sequence with the reconciler's step from Created
\* to Detached between VolumeCreate and VolumeAttach succeeds at every step
\* and gives the stated records.
C6_ScenarioWithDetached ==
    e2e.detached >= 1 =>
        /\ e2e.ok
        /\ Stored("v1")
        /\ LET v == volumes["v1"] IN
           /\ e2e.detached = 1 =>
                  v.State = VolumeStateCreated /\ v.DesireState = VolumeStateDetached
           /\ e2e.detached = 2 => v.State = VolumeStateDetached
           /\ e2e.detached = 3 =>
                  v.NodeID = "n1" /\ v.DesireState = VolumeStateHealthy
           /\ e2e.detached = 4 => v.State = VolumeStateHealthy
           /\ e2e.detached = 5 =>
                  v.DesireState = VolumeStateDetached /\ v.NodeID = ""
           /\ e2e.detached = 6 => v.DesireState = VolumeStateDeleted

C6_Witness ==
    /\ e2e.detached = Len(ScenarioWithDetached)
    /\ e2e.ok
    /\ last = [op |-> "VolumeDelete", err |-> FALSE]

\* The named replicas before position i of a salvage list.
NamedBefore(repNames, i) == {repNames[k] : k \in 1..(i - 1)}

\* C7: a VolumeSalvage call that returns an error, for whatever reason,
\* leaves the stored volume record unchanged; the volume is written (with
\* DesireState = Detached) only by a call that returns success and has
\* cleared every named replica; and a failing call has cleared exactly the
\* replicas named before the position at which it stopped, no later one.
C7_SalvageErrorKeepsVolume ==
    \A name \in VolumeNames, repNames \in SalvageLists :
        \A fault \in SalvageFaults(repNames) :
            Stored(name) =>
                LET r == VolumeSalvageCall(volumes, replicas, name, repNames, fault) IN
                /\ r.err => r.volumes = volumes
                /\ r.volumes # volumes =>
                       /\ ~r.err /\ ~r.panic
                       /\ r.volumes = [volumes EXCEPT
                              ![name].DesireState = VolumeStateDetached]
                /\ (~r.err /\ ~r.panic) =>
                       /\ r.volumes[name].DesireState = VolumeStateDetached
                       /\ \A i \in 1..Len(repNames) :
                              r.replicas[name][repNames[i]].FailedAt = ""
                /\ r.err =>
                       \E i \in 1..(Len(repNames) + 1) :
                           r.replicas = [replicas EXCEPT ![name] =
                               [rep \in ReplicaNames |->
                                   IF rep \in NamedBefore(repNames, i)
                                   THEN [FailedAt |-> ""]
                                   ELSE replicas[name][rep]]]

C7_Witness ==
    /\ last = [op |-> "VolumeSalvage", err |-> TRUE]
    /\ volumes["v1"].State = VolumeStateFault
    /\ volumes["v1"].DesireState = VolumeStateHealthy
    /\ replicas["v1"]["r1"] = [FailedAt |-> ""]
    /\ replicas["v1"]["r2"] = [FailedAt |-> "t1"]

\* C8: a partially failed VolumeSalvage can be retried with the same
\* arguments: after VolumeSalvage(name, [r1, r2]) has cleared r1 and failed
\* on r2, calling it again with the same list, once r2 is marked failed and
\* the datastore works, with no reconciler step in between, succeeds and ends
\* with both replicas cleared and DesireState = Detached.
C8_SalvageRetrySucceeds ==
    \A name \in VolumeNames, r1 \in ReplicaNames, r2 \in ReplicaNames :
        \A fault \in SalvageFaults(<<r1, r2>>) :
            (/\ r1 # r2
             /\ Stored(name)
             /\ replicas[name][r1] # Nil
             /\ replicas[name][r2] # Nil) =>
                LET first == VolumeSalvageCall(volumes, replicas, name,
                                               <<r1, r2>>, fault)
                    marked == [first.replicas EXCEPT
                                  ![name][r2] = [FailedAt |-> "t1"]]
                    again == VolumeSalvageCall(first.volumes, marked, name,
                                               <<r1, r2>>, 0)
                IN
                (/\ first.err
                 /\ replicas[name][r1].FailedAt # ""
                 /\ first.replicas[name][r1].FailedAt = "") =>
                    /\ ~again.err /\ ~again.panic
                    /\ again.replicas[name][r1].FailedAt = ""
                    /\ again.replicas[name][r2].FailedAt = ""
                    /\ again.volumes[name].DesireState = VolumeStateDetached

\* What a call on a name with no record must do: return an error value,
\* change no record, send no event.
RejectsNotFound(r) ==
    /\ r.err
    /\ ~r.panic
    /\ r.volumes = volumes
    /\ r.replicas = replicas
    /\ r.notify = 0

\* C9: no public volume operation panics on a name the datastore has no
\* record of: VolumeAttach, VolumeDetach, VolumeDelete, VolumeSalvage,
\* VolumeRecurringUpdate and VolumeCreateBySpec each return an error value,
\* change no record and send no event.
C9_NotFoundIsAnError ==
    \A name \in VolumeNames :
        ~Stored(name) =>
            /\ \A nodeID \in NodeIDs :
                   RejectsNotFound(
                       VolumeAttachCall(volumes, replicas, name, nodeID, 0))
            /\ RejectsNotFound(VolumeDetachCall(volumes, replicas, name, 0))
            /\ RejectsNotFound(VolumeDeleteCall(volumes, replicas, name, 0))
            /\ \A repNames \in SalvageLists :
                   RejectsNotFound(
                       VolumeSalvageCall(volumes, replicas, name, repNames, 0))
            /\ \A jobs \in JobLists :
                   RejectsNotFound(
                       VolumeRecurringUpdateCall(volumes, replicas, name, jobs, 0))
            /\ \A now \in Timestamps :
                   RejectsNotFound(
                       VolumeCreateBySpecCall(volumes, replicas, name, now, 0))

C11_DispatchCreatesOnDemand ==
    \A op \in DispatchOps, name \in VolumeNames :
        (Stored(name) /\ managedVolumes[name] = Nil) =>
            LET r == DispatchCall(op, managedVolumes, volumes, name) IN
            /\ ~r.err
            /\ r.delegated
            /\ r.managedVolumes[name] # Nil

Returned(g) == getters[g].pc \in {"unlock", "returned"} /\ ~getters[g].err

\* C12: two getManagedVolume(name, true) calls for the same name return the
\* same ManagedVolume, which is the one the cache holds for that name; the
\* lookup and the insert are one critical section, so at most one caller is
\* between Lock and Unlock at any moment.
C12_OneInstancePerName ==
    /\ \A g \in Callers, h \in Callers :
           (Returned(g) /\ Returned(h) /\ getters[g].name = getters[h].name)
               => getters[g].volume = getters[h].volume
    /\ \A g \in Callers :
           Returned(g) => /\ getters[g].volume # Nil
                          /\ managedVolumes[getters[g].name] = getters[g].volume
    /\ \A name \in VolumeNames :
           managedVolumes[name] # Nil => managedVolumes[name].name = name
    /\ Cardinality({g \in Callers :
                       getters[g].pc \in {"lookup", "construct", "unlock"}}) <= 1

\* Two calls for "v1", absent from the cache, that were in progress at the
\* same time, have both returned.
C12_Witness ==
    /\ \A g \in Callers :
           /\ getters[g].pc = "returned"
           /\ getters[g].name = "v1"
           /\ getters[g].overlap
           /\ ~getters[g].err
    /\ getters["g1"].volume = getters["g2"].volume
    /\ getters["g1"].volume # Nil

\* C13: with no settings record, a SettingsGet whose datastore calls work
\* creates one default record and returns it; with a record, SettingsGet
\* returns it without calling CreateSettings; and when the record is
\* missing, whether CreateSettings fails or not, the call returns what the
\* second GetSettings returned, its error included.
C13_SettingsGetReadOrCreate ==
    \A fault \in 0..3 :
        LET r == SettingsGetCall(settings, fault) IN
        /\ (settings = Nil /\ fault = 0) =>
               /\ r.creates = 1
               /\ r.settings = DefaultSettings
               /\ r.ret = DefaultSettings
               /\ ~r.err
        /\ (settings # Nil /\ fault # 1) =>
               /\ r.creates = 0
               /\ r.settings = settings
               /\ r.ret = settings
               /\ ~r.err
        /\ r.reread.done =>
               /\ r.ret = r.reread.ret
               /\ r.err = r.reread.err

\* C14: a VolumeCreate that looks its backup up with success persists the
\* backup's recorded size, whatever size was requested, and every stored
\* volume made from a backup has that size; a VolumeCreate that fails - by an
\* unparsable size, by finding no node, by a failed backup lookup or
\* otherwise - leaves the datastore as it was.
C14_BackupSizeSupersedes ==
    /\ \A request \in VolumeCreateRequests, node \in RandomNodes,
          now \in Timestamps, fault \in 0..1 :
           LET r == VolumeCreateCall(volumes, replicas, request, node, now, fault)
               lookedUp == /\ ConvertSizeOk(request.Size)
                           /\ node # NoNode
                           /\ request.FromBackup # ""
                           /\ GetBackupOk(request.FromBackup)
           IN
           /\ r.err => (r.volumes = volumes /\ r.replicas = replicas)
           /\ ( \/ ~ConvertSizeOk(request.Size)
                \/ node = NoNode
                \/ (request.FromBackup # "" /\ ~GetBackupOk(request.FromBackup)) )
                  => r.err
           /\ (lookedUp /\ fault = 0 /\ ~Stored(request.Name)) => ~r.err
           /\ (~r.err /\ request.FromBackup # "") =>
                  r.volumes[request.Name].Size =
                      BackupVolumeSize(request.FromBackup)
    /\ \A name \in VolumeNames :
           (Stored(name) /\ volumes[name].FromBackup # "") =>
               volumes[name].Size = BackupVolumeSize(volumes[name].FromBackup)

\* VolumeCreate has stored a volume from backup "b1", recorded as "5Gi",
\* for a request that asked for "10Gi".
C14_Witness ==
    /\ last = [op |-> "VolumeCreate", err |-> FALSE]
    /\ Stored("v1")
    /\ volumes["v1"].FromBackup = "b1"
    /\ volumes["v1"].Size = "5Gi"

\* C15: VolumeDelete with a working datastore succeeds for a stored volume
\* whatever its State and DesireState are, and changes nothing but the
\* volume's DesireState, which becomes Deleted.
C15_DeleteAnyState ==
    \A name \in VolumeNames :
        Stored(name) =>
            LET r == VolumeDeleteCall(volumes, replicas, name, 0) IN
            /\ ~r.err
            /\ ~r.panic
            /\ r.volumes =
                   [volumes EXCEPT ![name].DesireState = VolumeStateDeleted]
            /\ r.replicas = replicas

\* VolumeDelete has succeeded on a Healthy volume attached to "n1" with
\* recurring jobs.
C15_Witness ==
    /\ last = [op |-> "VolumeDelete", err |-> FALSE]
    /\ Stored("v1")
    /\ volumes["v1"].DesireState = VolumeStateDeleted
    /\ volumes["v1"].State = VolumeStateHealthy
    /\ volumes["v1"].NodeID = "n1"
    /\ volumes["v1"].OwnerID = "n1"
    /\ volumes["v1"].RecurringJobs = <<"j1">>

C17_SalvageMissingReplica ==
    \A name \in VolumeNames, repNames \in SalvageLists :
        ( /\ Stored(name)
          /\ volumes[name].State = VolumeStateFault
          /\ \E i \in 1..Len(repNames) :
                 GetVolumeReplica(replicas, name, repNames[i]) = Nil )
            => LET r == VolumeSalvageCall(volumes, replicas, name, repNames, 0) IN
               /\ r.err
               /\ ~r.panic
               /\ r.volumes = volumes
               /\ r.replicas = replicas

\* C18: a stored volume whose DesireState is Detached has an empty NodeID.
C18_DetachedHasNoNode ==
    \A name \in VolumeNames :
        (Stored(name) /\ volumes[name].DesireState = VolumeStateDetached)
            => volumes[name].NodeID = ""

\* C19: VolumeAttach, VolumeDetach, VolumeDelete, VolumeSalvage and
\* VolumeRecurringUpdate, called on a stored volume with any arguments and
\* with any of their datastore calls failing or none, leave the volume
\* stored with the State it had.
C19_FacadeKeepsState ==
    \A name \in VolumeNames :
        Stored(name) =>
            LET KeepsState(r) ==
                    /\ r.volumes[name] # Nil
                    /\ r.volumes[name].State = volumes[name].State
            IN
            /\ \A nodeID \in NodeIDs, fault \in 0..2 :
                   KeepsState(VolumeAttachCall(volumes, replicas, name, nodeID, fault))
            /\ \A fault \in 0..2 :
                   /\ KeepsState(VolumeDetachCall(volumes, replicas, name, fault))
                   /\ KeepsState(VolumeDeleteCall(volumes, replicas, name, fault))
            /\ \A jobs \in JobLists, fault \in 0..2 :
                   KeepsState(VolumeRecurringUpdateCall(volumes, replicas, name,
                                                        jobs, fault))
            /\ \A repNames \in SalvageLists :
                   \A fault \in SalvageFaults(repNames) :
                       KeepsState(VolumeSalvageCall(volumes, replicas, name,
                                                    repNames, fault))

\* VolumeDetach has succeeded on a Degraded volume, which is still Degraded.
C19_Witness ==
    /\ last = [op |-> "VolumeDetach", err |-> FALSE]
    /\ Stored("v1")
    /\ volumes["v1"].State = VolumeStateDegraded
    /\ volumes["v1"].DesireState = VolumeStateDetached

\* C20: a stored volume whose DesireState is Healthy has NodeID = OwnerID,
\* also after a call has written back a record it read before another call
\* changed it.
C20_HealthyNodeIsOwner ==
    \A name \in VolumeNames :
        (Stored(name) /\ volumes[name].DesireState = VolumeStateHealthy)
            => volumes[name].NodeID = volumes[name].OwnerID

\* A VolumeAttach to "n1" has written back a record that another call had
\* changed since the VolumeAttach read it.
C20_Witness ==
    /\ call.pc = "done"
    /\ call.op = "VolumeAttach"
    /\ ~call.err
    /\ call.stale
    /\ Stored("v1")
    /\ volumes["v1"].DesireState = VolumeStateHealthy
    /\ volumes["v1"].NodeID = "n1"

====
